---- MODULE Spec2Model ----
(***************************************************************************)
(* Model of src/main.py: the decoy web application.  The event log is a    *)
(* sequence of lines; every HTTP request passes the `logger` middleware    *)
(* (request event, handler, response event, hp_sid cookie); handlers are   *)
(* chosen by the route table in registration order.  Clients are browsers  *)
(* that send one request at a time; requests of different clients          *)
(* interleave between the middleware's entry, the handler and the          *)
(* middleware's exit.                                                      *)
(***************************************************************************)
EXTENDS Integers, Sequences, FiniteSets, TLC

\* ---------------------------------------------------------------- bounds
MaxReqs == 2        \* requests sent in one behaviour
MaxClock == 1       \* ticks of the wall clock in one behaviour
MaxLines == 3       \* lines of a log handed to the aggregation
StatsNow == 200     \* the hour at which the aggregation is applied
MaxBlocks == 3      \* blocks of equal lines in a log handed to the ranking

\* ------------------------------------------------------- program constants
ADMIN_USER == "admin"
ADMIN_PASS == "admin123"
PROFILE_NAMES == <<"Jack", "Emi", "Noah", "Lexi", "John", "Mark", "Noelle">>
DefaultTail == 200
DefaultHours == 168
DefaultLimit == 10000
TopN == 20

HONEY_ROUTES == {"/" \o PROFILE_NAMES[i] : i \in 1..Len(PROFILE_NAMES)}

InProfileNames(name) == \E i \in 1..Len(PROFILE_NAMES) : PROFILE_NAMES[i] = name

\* ------------------------------------------------------------- the clients
Clients == {"c1", "c2"}
PeerHost == [c \in Clients |-> IF c = "c1" THEN "10.0.0.1" ELSE "10.0.0.2"]

NoSid == <<>>       \* no hp_sid cookie
DashSid == <<"-">>  \* the string "-" where a sid is expected
uuid4(n) == <<"uuid", n>>   \* the n-th identifier drawn; all are distinct
PyNone == "<None>"  \* Python's None where a string may stand
NoUser == "<none>"  \* request.session has no "user" key

\* ------------------------------------------------------------ time stamps
\* An ISO-8601 string is <<"iso", t>> (t in hours); any other string is
\* <<"text", s>>.  DatetimeMin is datetime.min, before every stamped time.
DatetimeMin == -1

now_iso(now) == <<"iso", now>>

\* datetime.fromisoformat(...) inside try/except: [ok, t], ok = FALSE is t = None
fromisoformat(ts) ==
    IF ts[1] = "iso" THEN [ok |-> TRUE, t |-> ts[2]] ELSE [ok |-> FALSE, t |-> DatetimeMin]

\* ------------------------------------------------------------ the log file
\* A line is [json |-> obj] (json.dumps of a dict) or [raw |-> text] (a line
\* that is no JSON).
json_dumps(obj) == [json |-> obj]
json_loads_ok(ln) == "json" \in DOMAIN ln
json_loads(ln) == ln.json

\* dict.get(key, default)
Get(obj, key, default) == IF key \in DOMAIN obj THEN obj[key] ELSE default

log_event_truncating(file, obj) == <<json_dumps(obj)>>

\* open(EVENT_LOG, "a") ; write one line
log_event(file, obj) == Append(file, json_dumps(obj))

\* lines[-int(n):]
TailLines(lines, n) ==
    IF n = 0 THEN lines
    ELSE IF n > 0
         THEN SubSeq(lines, (IF Len(lines) > n THEN Len(lines) - n + 1 ELSE 1), Len(lines))
         ELSE SubSeq(lines, (0 - n) + 1, Len(lines))

RECURSIVE Reverse(_)
Reverse(s) == IF s = <<>> THEN <<>> ELSE Append(Reverse(Tail(s)), Head(s))

\* ---------------------------------------------------------------- requests
\* A request is [method, segs, hp_sid, forwarded, peer, body, username,
\* password, user]: hp_sid is the cookie (NoSid when absent), forwarded the
\* hops of x-forwarded-for (<<>> when absent), user the "user" key of the
\* signed hp_admin session the request carries, segs the segments of the
\* path ("/" is <<>>, "/_admin/logs" is <<"_admin", "logs">>).

\* req.url.path
RECURSIVE UrlPath(_)
UrlPath(segs) ==
    IF segs = <<>> THEN "/"
    ELSE IF Len(segs) = 1 THEN "/" \o segs[1]
    ELSE "/" \o segs[1] \o UrlPath(Tail(segs))

\* cookies.get("hp_sid") or str(uuid4()); fresh is the uuid4 that would be drawn
sid_from_req(req, fresh) == IF req.hp_sid # NoSid THEN req.hp_sid ELSE uuid4(fresh)

\* number of uuid4 values one call of sid_from_req draws
SidsDrawn(req) == IF req.hp_sid # NoSid THEN 0 ELSE 1

ip_from_req(req) ==
    IF req.forwarded # <<>> THEN req.forwarded[1]
    ELSE IF req.peer # "" THEN req.peer
    ELSE "0.0.0.0"

\* ---------------------------------------------------------------- notifier
\* cfg: TELEGRAM_TOKEN and TELEGRAM_CHAT are both set; reach: the outcome of
\* requests.post ("ok" or "fail").  posts are the outbound calls made.
notify_telegram(msg, cfg, reach) ==
    IF ~cfg THEN [posts |-> <<>>, exc |-> FALSE]
    ELSE [posts |-> <<[text |-> msg, delivered |-> (reach = "ok")]>>, exc |-> FALSE]

\* the calls of the notifier, each with the number of lines the log file had
\* when the handler made it
CalledAfter(posts, file) == [i \in 1..Len(posts) |-> posts[i] @@ [after |-> Len(file)]]

\* ---------------------------------------------------------------- handlers
\* A handler yields [log, wrote, posts, user, drawn, res, exc, read]: the log
\* file after it, the events it passed to log_event, the notifier calls it
\* made, the session's user after it, the number of uuid4 values it drew, its
\* response, whether it raised, and whether it read the log file.
Resp(st, body) == [status |-> st, location |-> "", body |-> body]
Redirect(to) == [status |-> 303, location |-> to, body |-> "redirect"]
NoResp == [status |-> 500, location |-> "", body |-> "Internal Server Error"]

Plain(req, file, res) ==
    [log |-> file, wrote |-> <<>>, posts |-> <<>>, user |-> req.user, drawn |-> 0,
     res |-> res, exc |-> FALSE, read |-> FALSE]

index(req, file) == Plain(req, file, Resp(200, "index.html"))

show_profile_any_name(req, name, file, now, fresh, cfg, reach) ==
    LET ip == ip_from_req(req)
        n == notify_telegram([alert |-> "profile", name |-> name, ip |-> ip], cfg, reach)
        ev == [ts |-> now_iso(now), kind |-> "profile_view", profile |-> name, ip |-> ip,
               sid |-> sid_from_req(req, fresh)]
    IN [log |-> log_event(file, ev), wrote |-> <<ev>>,
        posts |-> CalledAfter(n.posts, log_event(file, ev)), user |-> req.user, drawn |-> SidsDrawn(req),
        res |-> Resp(200, "profile.html"), exc |-> n.exc, read |-> FALSE]

show_profile_log_after_notify(req, name, file, now, fresh, cfg, reach) ==
    LET ip == ip_from_req(req)
        n == notify_telegram([alert |-> "profile", name |-> name, ip |-> ip], cfg, reach)
        sent == n.posts = <<>> \/ n.posts[1].delivered
        ev == [ts |-> now_iso(now), kind |-> "profile_view", profile |-> name, ip |-> ip,
               sid |-> sid_from_req(req, fresh)]
    IN IF ~InProfileNames(name)
       THEN Plain(req, file, Resp(404, "Profile not found"))
       ELSE [log |-> IF sent THEN log_event(file, ev) ELSE file,
             wrote |-> IF sent THEN <<ev>> ELSE <<>>,
             posts |-> CalledAfter(n.posts, file), user |-> req.user, drawn |-> SidsDrawn(req),
             res |-> Resp(200, "profile.html"), exc |-> n.exc, read |-> FALSE]

show_profile(req, name, file, now, fresh, cfg, reach) ==
    IF ~InProfileNames(name)
    THEN Plain(req, file, Resp(404, "Profile not found"))
    ELSE LET ip == ip_from_req(req)
             ev == [ts |-> now_iso(now), kind |-> "profile_view", profile |-> name,
                    ip |-> ip, sid |-> sid_from_req(req, fresh)]
             n == notify_telegram([alert |-> "profile", name |-> name, ip |-> ip], cfg, reach)
         IN [log |-> log_event(file, ev), wrote |-> <<ev>>,
             posts |-> CalledAfter(n.posts, log_event(file, ev)), user |-> req.user, drawn |-> SidsDrawn(req),
             res |-> Resp(200, "profile.html"), exc |-> n.exc, read |-> FALSE]

\* A body is [type |-> "object", value |-> dict], [type |-> "array"] (JSON
\* that is no object) or [type |-> "invalid"] (no JSON).
\* str(x): a string is itself, None is "None"
PyStr(v) == IF v = PyNone THEN "None" ELSE v

track_event(req, file, now, fresh, cfg, reach) ==
    LET isJson == req.body.type # "invalid"
        isDict == ~isJson \/ req.body.type = "object"
        data == IF req.body.type = "object" THEN req.body.value ELSE <<>>
        e == [ts |-> now_iso(now), kind |-> "client", sid |-> sid_from_req(req, fresh),
              ip |-> ip_from_req(req),
              action |-> PyStr(Get(data, "action", PyNone)),
              label |-> PyStr(Get(data, "label", PyNone))]
        due == e.action = "click" /\ InProfileNames(e.label)
        n == IF due
             THEN notify_telegram([alert |-> "click", name |-> e.label, ip |-> e.ip], cfg, reach)
             ELSE [posts |-> <<>>, exc |-> FALSE]
    IN IF ~isDict
       THEN \* data.get raises AttributeError: nothing is appended
            [log |-> file, wrote |-> <<>>, posts |-> <<>>, user |-> req.user,
             drawn |-> SidsDrawn(req), res |-> NoResp, exc |-> TRUE, read |-> FALSE]
       ELSE [log |-> log_event(file, e), wrote |-> <<e>>,
             posts |-> CalledAfter(n.posts, log_event(file, e)), user |-> req.user,
             drawn |-> SidsDrawn(req), res |-> Resp(200, "ok"), exc |-> n.exc,
             read |-> FALSE]

is_logged_in_always(req) == TRUE

is_logged_in(req) == req.user = ADMIN_USER

login_get(req, file) == Plain(req, file, Resp(200, "login.html"))

login_post(req, file) ==
    IF req.username = ADMIN_USER /\ req.password = ADMIN_PASS
    THEN [Plain(req, file, Redirect("/_admin/logs")) EXCEPT !.user = ADMIN_USER]
    ELSE Plain(req, file, Resp(200, "login.html"))

logout(req, file) == [Plain(req, file, Redirect("/login")) EXCEPT !.user = NoUser]

\* json.loads of each line; a line that is no JSON becomes {"raw": ln}
ParsedOrRaw(lines) ==
    [i \in 1..Len(lines) |->
        IF json_loads_ok(lines[i]) THEN json_loads(lines[i]) ELSE [raw |-> lines[i]]]

\* `exists` says whether the log file is there when the handler looks
admin_logs(req, file, exists, tail) ==
    IF ~is_logged_in(req)
    THEN Plain(req, file, Redirect("/login"))
    ELSE IF ~exists
    THEN Plain(req, file, [status |-> 200, location |-> "", body |-> "admin_logs.html",
                           events |-> <<>>])
    ELSE [Plain(req, file, [status |-> 200, location |-> "", body |-> "admin_logs.html",
                            events |-> Reverse(ParsedOrRaw(TailLines(file, tail)))])
          EXCEPT !.read = TRUE]

\* ------------------------------------------------------------- aggregation
\* A Counter is the sequence of its [key, n] entries in insertion order.
CounterHas(cnt, k) == \E i \in 1..Len(cnt) : cnt[i].key = k

CounterInc(cnt, k) ==
    IF CounterHas(cnt, k)
    THEN LET i == CHOOSE j \in 1..Len(cnt) : cnt[j].key = k
         IN [cnt EXCEPT ![i].n = @ + 1]
    ELSE Append(cnt, [key |-> k, n |-> 1])

RECURSIVE CounterTotal(_)
CounterTotal(cnt) == IF cnt = <<>> THEN 0 ELSE Head(cnt).n + CounterTotal(Tail(cnt))

\* sorted(items, key=count, reverse=True): a stable insertion sort
RECURSIVE InsertByCount_unstable(_, _)
InsertByCount_unstable(sorted, e) ==
    IF sorted = <<>> THEN <<e>>
    ELSE IF Head(sorted).n > e.n
         THEN <<Head(sorted)>> \o InsertByCount_unstable(Tail(sorted), e)
    ELSE <<e>> \o sorted

RECURSIVE InsertByCount(_, _)
InsertByCount(sorted, e) ==
    IF sorted = <<>> THEN <<e>>
    ELSE IF Head(sorted).n >= e.n THEN <<Head(sorted)>> \o InsertByCount(Tail(sorted), e)
    ELSE <<e>> \o sorted

RECURSIVE SortByCount(_)
SortByCount(cnt) ==
    IF cnt = <<>> THEN <<>>
    ELSE InsertByCount(SortByCount(SubSeq(cnt, 1, Len(cnt) - 1)), cnt[Len(cnt)])

\* Counter.most_common(n)
most_common(cnt, n) ==
    LET s == SortByCount(cnt) IN SubSeq(s, 1, IF Len(s) < n THEN Len(s) ELSE n)

Max_latest(a, b) == b

Max(a, b) == IF a >= b THEN a ELSE b

\* str(datetime): the time in text form
StrDatetime(t) == <<"str", t>>

EmptyAgg ==
    [per_ip |-> <<>>, per_route |-> <<>>, click_labels |-> <<>>,
     last_seen |-> <<>>, sessions_per_ip |-> <<>>]

\* `if t and t < cutoff: continue`
BeforeCutoff_inclusive(t, cutoff) == t.ok /\ t.t <= cutoff

BeforeCutoff(t, cutoff) == t.ok /\ t.t < cutoff

\* the body of the loop over the lines, for one line
AggLine(acc, ln, cutoff) ==
    IF ~json_loads_ok(ln) THEN acc
    ELSE LET obj == json_loads(ln)
             t == fromisoformat(Get(obj, "ts", <<"text", "">>))
             k == Get(obj, "kind", PyNone)
             ipp == Get(obj, "ip", "-")
             s == Get(obj, "sid", DashSid)
             r == Get(obj, "route", "-")
             tt == IF t.ok THEN t.t ELSE DatetimeMin
             counted == k \in {"request", "response"}
             click == k = "client" /\ Get(obj, "action", PyNone) = "click"
         IN IF BeforeCutoff(t, cutoff) THEN acc
            ELSE [per_ip |-> IF counted THEN CounterInc(acc.per_ip, ipp) ELSE acc.per_ip,
                  per_route |-> IF counted THEN CounterInc(acc.per_route, r) ELSE acc.per_route,
                  click_labels |-> IF click
                                   THEN CounterInc(acc.click_labels,
                                                   Get(obj, "label", "(unlabeled)"))
                                   ELSE acc.click_labels,
                  last_seen |-> (ipp :> Max(Get(acc.last_seen, ipp, tt), tt)) @@ acc.last_seen,
                  sessions_per_ip |->
                      (ipp :> (Get(acc.sessions_per_ip, ipp, {}) \cup {s}))
                          @@ acc.sessions_per_ip]

\* the loop over the lines: acc holds the counters after the lines before
RECURSIVE AggregateFrom_abort(_, _, _)
AggregateFrom_abort(acc, lines, cutoff) ==
    IF lines = <<>> \/ ~json_loads_ok(Head(lines)) THEN acc
    ELSE AggregateFrom_abort(AggLine(acc, Head(lines), cutoff), Tail(lines), cutoff)

RECURSIVE AggregateFrom(_, _, _)
AggregateFrom(acc, lines, cutoff) ==
    IF lines = <<>> THEN acc
    ELSE LET after == AggLine(acc, Head(lines), cutoff)
         IN IF after = acc
            THEN AggregateFrom(acc, Tail(lines), cutoff)
            ELSE AggregateFrom(after, Tail(lines), cutoff)

Aggregate(lines, cutoff) == AggregateFrom(EmptyAgg, lines, cutoff)

\* the template context of admin_stats
StatsContext(lines, now, hours) ==
    LET cutoff == now - hours
        a == Aggregate(lines, cutoff)
        top_ips == most_common(a.per_ip, TopN)
    IN [hours |-> hours, top_ips |-> top_ips,
        top_routes |-> most_common(a.per_route, TopN),
        top_clicks |-> most_common(a.click_labels, TopN),
        ip_details |-> [i \in 1..Len(top_ips) |->
                          [ip |-> top_ips[i].key,
                           sessions |-> Cardinality(Get(a.sessions_per_ip, top_ips[i].key, {})),
                           last_seen |-> StrDatetime(Get(a.last_seen, top_ips[i].key, PyNone))]]]

\* Path(EVENT_LOG).read_text raises FileNotFoundError when the file is not there
admin_stats(req, file, exists, now, hours) ==
    IF ~is_logged_in(req)
    THEN Plain(req, file, Redirect("/login"))
    ELSE IF ~exists
    THEN [Plain(req, file, NoResp) EXCEPT !.exc = TRUE]
    ELSE [Plain(req, file, [status |-> 200, location |-> "", body |-> "admin_stats.html",
                            stats |-> StatsContext(file, now, hours)])
          EXCEPT !.read = TRUE]

\* ------------------------------------------------------------------ export
Cols == <<"ts", "kind", "ip", "sid", "route", "method", "status", "action", "label",
          "ua", "accept_language", "referrer", "is_honey">>

\* the objects of the lines that parse, in order
RECURSIVE ParsedOnly(_)
ParsedOnly(lines) ==
    IF lines = <<>> THEN <<>>
    ELSE IF json_loads_ok(Head(lines))
         THEN <<json_loads(Head(lines))>> \o ParsedOnly(Tail(lines))
         ELSE ParsedOnly(Tail(lines))

\* one row: obj.get(c, "") for every column
Row(obj) == [i \in 1..Len(Cols) |-> [col |-> Cols[i], present |-> Cols[i] \in DOMAIN obj,
                                    value |-> Get(obj, Cols[i], "")]]

ExportRows(lines, limit) ==
    LET objs == ParsedOnly(TailLines(lines, limit))
    IN [i \in 1..Len(objs) |-> Row(objs[i])]

export_csv(req, file, exists, limit) ==
    IF ~is_logged_in(req)
    THEN Plain(req, file, Redirect("/login"))
    ELSE IF ~exists
    THEN Plain(req, file, [status |-> 200, location |-> "", body |-> "", rows |-> <<>>])
    ELSE [Plain(req, file, [status |-> 200, location |-> "", body |-> "events_export.csv",
                            rows |-> ExportRows(file, limit)])
          EXCEPT !.read = TRUE]

\* ----------------------------------------------------------------- routing
\* The routes in the order the decorators register them.
Routes ==
    << [method |-> "GET",  pattern |-> <<>>,                    handler |-> "index"],
       [method |-> "GET",  pattern |-> <<"{name}">>,            handler |-> "show_profile"],
       [method |-> "POST", pattern |-> <<"event">>,             handler |-> "track_event"],
       [method |-> "GET",  pattern |-> <<"login">>,             handler |-> "login_get"],
       [method |-> "POST", pattern |-> <<"login">>,             handler |-> "login_post"],
       [method |-> "GET",  pattern |-> <<"logout">>,            handler |-> "logout"],
       [method |-> "GET",  pattern |-> <<"_admin", "logs">>,    handler |-> "admin_logs"],
       [method |-> "GET",  pattern |-> <<"_admin", "stats">>,   handler |-> "admin_stats"],
       [method |-> "GET",  pattern |-> <<"_admin", "export">>,  handler |-> "export_csv"] >>

\* a path parameter matches one non-empty segment
PathMatches(pattern, segs) ==
    /\ Len(pattern) = Len(segs)
    /\ \A i \in 1..Len(pattern) : pattern[i] = "{name}" \/ pattern[i] = segs[i]

\* the router takes the first route that matches path and method; a route
\* that matches the path alone answers 405; no route answers 404
RouteOf(req) ==
    LET full == {i \in 1..Len(Routes) :
                    PathMatches(Routes[i].pattern, req.segs) /\ Routes[i].method = req.method}
        part == {i \in 1..Len(Routes) : PathMatches(Routes[i].pattern, req.segs)}
    IN IF full # {} THEN Routes[CHOOSE i \in full : \A j \in full : i <= j].handler
       ELSE IF part # {} THEN "method_not_allowed"
       ELSE "not_found"

Dispatch(req, file, exists, now, fresh, cfg, reach) ==
    LET h == RouteOf(req)
    IN CASE h = "index" -> index(req, file)
         [] h = "show_profile" -> show_profile(req, req.segs[1], file, now, fresh, cfg, reach)
         [] h = "track_event" -> track_event(req, file, now, fresh, cfg, reach)
         [] h = "login_get" -> login_get(req, file)
         [] h = "login_post" -> login_post(req, file)
         [] h = "logout" -> logout(req, file)
         [] h = "admin_logs" -> admin_logs(req, file, exists, DefaultTail)
         [] h = "admin_stats" -> admin_stats(req, file, exists, now, DefaultHours)
         [] h = "export_csv" -> export_csv(req, file, exists, DefaultLimit)
         [] h = "method_not_allowed" -> Plain(req, file, Resp(405, "Method Not Allowed"))
         [] OTHER -> Plain(req, file, Resp(404, "Not Found"))

\* ------------------------------------------------------------------- state
VARIABLES
    log,        \* the lines of the EVENT_LOG file
    outbox,     \* the calls made to the Telegram API, in order
    telegram,   \* TELEGRAM_TOKEN and TELEGRAM_CHAT are configured
    clock,      \* the wall clock, in hours
    nextSid,    \* the index of the next uuid4 drawn
    nreq,       \* requests sent so far
    jar,        \* per client: its cookies, [hp_sid, user]
    inflight,   \* per client: its request in the middleware, or [pc |-> "idle"]
    last,       \* per client: its last completed exchange
    hist,       \* per client: what it has done so far (history)
    statsOut,   \* the result of the last admin read applied on its own
    present,    \* whether the log file exists
    written     \* the events passed to log_event so far, in call order

vars == <<log, outbox, telegram, clock, nextSid, nreq, jar, inflight, last, hist, statsOut,
         present, written>>

Idle == [pc |-> "idle"]
NoExchange == [done |-> FALSE]

\* what the clients send
GetPaths == {<<>>, <<"Jack">>, <<"nobody">>, <<"login">>, <<"logout">>,
             <<"_admin", "logs">>, <<"_admin", "stats">>, <<"_admin", "export">>}
Bodies == {[type |-> "object", value |-> [action |-> "click", label |-> "Jack"]],
           [type |-> "object", value |-> <<>>],
           [type |-> "array"],
           [type |-> "invalid"]}
Credentials == {[username |-> ADMIN_USER, password |-> ADMIN_PASS],
                [username |-> ADMIN_USER, password |-> "guess"],
                [username |-> "root", password |-> ADMIN_PASS]}
NoBody == [type |-> "none"]
NoCreds == [username |-> "", password |-> ""]

AllSends ==
    {[method |-> "GET", segs |-> p, body |-> NoBody, form |-> NoCreds] : p \in GetPaths}
    \cup {[method |-> "POST", segs |-> <<"event">>, body |-> b, form |-> NoCreds] : b \in Bodies}
    \cup {[method |-> "POST", segs |-> <<"login">>, body |-> NoBody, form |-> f] :
              f \in Credentials}

\* c1 sends anything; c2 is a second browser that visits a decoy page, clicks
\* on it and tries the admin log view
VisitorSends ==
    {snd \in AllSends :
        \/ snd.method = "GET" /\ snd.segs \in {<<"Jack">>, <<"_admin", "logs">>}
        \/ snd.body = [type |-> "object", value |-> [action |-> "click", label |-> "Jack"]]}

Sends(c) == IF c = "c1" THEN AllSends ELSE VisitorSends

\* the request the server sees when client c sends snd
RequestOf(c, snd) ==
    [method |-> snd.method, segs |-> snd.segs, body |-> snd.body,
     username |-> snd.form.username, password |-> snd.form.password,
     hp_sid |-> jar[c].hp_sid, user |-> jar[c].user,
     forwarded |-> IF c = "c2" THEN <<"203.0.113.9", PeerHost[c]>> ELSE <<>>,
     peer |-> PeerHost[c]]

Init ==
    /\ log = <<>>
    /\ outbox = <<>>
    /\ telegram \in BOOLEAN
    /\ clock = 0
    /\ nextSid = 1
    /\ nreq = 0
    /\ jar = [c \in Clients |-> [hp_sid |-> NoSid, user |-> NoUser]]
    /\ inflight = [c \in Clients |-> Idle]
    /\ last = [c \in Clients |-> NoExchange]
    /\ hist = [c \in Clients |-> [login |-> FALSE, failed |-> FALSE, out |-> FALSE]]
    /\ statsOut = <<>>
    /\ present = TRUE
    /\ written = <<>>

\* the clock counts hours; an hour ends between two requests
Tick ==
    /\ clock < MaxClock
    /\ nreq < MaxReqs
    /\ \A c \in Clients : inflight[c].pc = "idle"
    /\ clock' = clock + 1
    /\ UNCHANGED <<log, outbox, telegram, nextSid, nreq, jar, inflight, last, hist, statsOut,
                 present, written>>

\* logger, up to `await call_next(req)`
LoggerEnter(c, snd) ==
    /\ inflight[c].pc = "idle"
    /\ nreq < MaxReqs
    /\ LET req == RequestOf(c, snd)
           s == sid_from_req(req, nextSid)
           ev == [ts |-> now_iso(clock), kind |-> "request", sid |-> s,
                  ip |-> ip_from_req(req), route |-> UrlPath(req.segs),
                  method |-> req.method]
       IN /\ log' = log_event(log, ev)
          /\ written' = Append(written, ev)
          /\ nextSid' = nextSid + SidsDrawn(req)
          /\ inflight' = [inflight EXCEPT ![c] = [pc |-> "call_next", req |-> req, s |-> s]]
    /\ nreq' = nreq + 1
    /\ present' = TRUE
    /\ UNCHANGED <<outbox, telegram, clock, jar, last, hist, statsOut>>

\* the history of a client after its request req: login, it has sent the
\* configured username and password to POST /login; failed, it has sent other
\* ones; out, it has sent GET /logout since its last such login
HistAfter(h, req) ==
    IF req.method = "POST" /\ req.segs = <<"login">>
    THEN IF req.username = ADMIN_USER /\ req.password = ADMIN_PASS
         THEN [h EXCEPT !.login = TRUE, !.out = FALSE]
         ELSE [h EXCEPT !.failed = TRUE]
    ELSE IF req.method = "GET" /\ req.segs = <<"logout">>
    THEN [h EXCEPT !.out = TRUE]
    ELSE h

\* call_next(req): the router and the handler.  An exception of the handler
\* leaves logger at the await: no response event, no cookie, and the server
\* answers 500.
CallNext(c) ==
    /\ inflight[c].pc = "call_next"
    /\ \E reach \in {"ok", "fail"} :
        LET req == inflight[c].req
            eff == Dispatch(req, log, present, clock, nextSid, telegram, reach)
            done == [done |-> TRUE, req |-> req, s |-> inflight[c].s, res |-> eff.res,
                     found |-> present,
                     seen |-> IF eff.read THEN Len(log) ELSE 0,
                     at |-> IF eff.read THEN clock ELSE 0,
                     appended |-> SubSeq(eff.log, Len(log) + 1, Len(eff.log)),
                     posts |-> eff.posts, read |-> eff.read, user |-> eff.user,
                     raised |-> eff.exc]
        IN /\ log' = eff.log
           /\ present' = (present \/ eff.log # log)
           /\ written' = written \o eff.wrote
           /\ outbox' = outbox \o eff.posts
           /\ nextSid' = nextSid + eff.drawn
           /\ IF eff.exc
              THEN /\ inflight' = [inflight EXCEPT ![c] = Idle]
                   /\ last' = [last EXCEPT ![c] =
                                  [done EXCEPT !.res = NoResp] @@ [set_cookie |-> NoSid,
                                                                   logged |-> FALSE]]
                   /\ hist' = [hist EXCEPT ![c] = HistAfter(@, req)]
              ELSE /\ inflight' = [inflight EXCEPT ![c] = done @@ [pc |-> "returned"]]
                   /\ UNCHANGED <<last, hist>>
    /\ UNCHANGED <<telegram, clock, nreq, jar, statsOut>>

\* logger, after `await call_next(req)`
LoggerExit(c) ==
    /\ inflight[c].pc = "returned"
    /\ LET x == inflight[c]
           req == x.req
           set == IF req.hp_sid = NoSid THEN x.s ELSE NoSid
           ev == [ts |-> now_iso(clock), kind |-> "response", sid |-> x.s,
                  ip |-> ip_from_req(req), route |-> UrlPath(req.segs),
                  status |-> x.res.status,
                  is_honey |-> (UrlPath(req.segs) \in HONEY_ROUTES)]
       IN /\ log' = log_event(log, ev)
          /\ written' = Append(written, ev)
          /\ jar' = [jar EXCEPT ![c] = [hp_sid |-> IF set # NoSid THEN set ELSE @.hp_sid,
                                        user |-> x.user]]
          /\ last' = [last EXCEPT ![c] =
                         [done |-> TRUE, req |-> req, s |-> x.s, res |-> x.res,
                          appended |-> x.appended, posts |-> x.posts,
                          read |-> x.read, user |-> x.user, raised |-> FALSE,
                          found |-> x.found, seen |-> x.seen, at |-> x.at,
                          set_cookie |-> set, logged |-> TRUE]]
          /\ hist' = [hist EXCEPT ![c] = HistAfter(@, req)]
    /\ inflight' = [inflight EXCEPT ![c] = Idle]
    /\ present' = TRUE
    /\ UNCHANGED <<outbox, telegram, clock, nextSid, nreq, statsOut>>

Next ==
    \/ Tick
    \/ \E c \in Clients : \E snd \in Sends(c) : LoggerEnter(c, snd)
    \/ \E c \in Clients : CallNext(c)
    \/ \E c \in Clients : LoggerExit(c)

Spec == Init /\ [][Next]_vars

\* ------------------------------------------- the aggregation on its own
\* The aggregation applied to any log of at most MaxLines lines: records
\* stamped 200 h, 10 h and 1 h before StatsNow, records whose ts is no
\* timestamp, and a line that is no JSON.
StatTs == {now_iso(StatsNow - 200), now_iso(StatsNow - 10), now_iso(StatsNow - 1),
           <<"text", "yesterday">>}
StatLines ==
    {json_dumps([ts |-> t, kind |-> k, sid |-> uuid4(1), ip |-> i, route |-> "/Jack"]) :
        t \in StatTs, k \in {"request", "profile_view"}, i \in {"10.0.0.1", "10.0.0.2"}}
    \cup {[raw |-> "{"]}
StatHours == {1, 10, 24}

RECURSIVE SeqsUpTo(_, _)
SeqsUpTo(S, n) ==
    IF n = 0 THEN {<<>>}
    ELSE LET shorter == SeqsUpTo(S, n - 1)
         IN shorter \cup {Append(q, x) : q \in {r \in shorter : Len(r) = n - 1}, x \in S}

AdminRequest ==
    [method |-> "GET", segs |-> <<"_admin", "stats">>, body |-> NoBody,
     username |-> "", password |-> "", hp_sid |-> NoSid, user |-> ADMIN_USER,
     forwarded |-> <<>>, peer |-> PeerHost["c1"]]

InitStats ==
    /\ log \in SeqsUpTo(StatLines, MaxLines)
    /\ outbox = <<>>
    /\ telegram = FALSE
    /\ clock = StatsNow
    /\ nextSid = 1
    /\ nreq = 0
    /\ jar = [c \in Clients |-> [hp_sid |-> NoSid, user |-> NoUser]]
    /\ inflight = [c \in Clients |-> Idle]
    /\ last = [c \in Clients |-> NoExchange]
    /\ hist = [c \in Clients |-> [login |-> FALSE, failed |-> FALSE, out |-> FALSE]]
    /\ statsOut = <<>>
    /\ present = TRUE
    /\ written = <<>>

\* admin_stats of a logged-in session with window `hours`
ApplyStats(hours) ==
    /\ statsOut = <<>>
    /\ statsOut' = [hours |-> hours,
                    res |-> admin_stats(AdminRequest, log, present, clock, hours).res,
                    agg |-> Aggregate(log, clock - hours)]
    /\ UNCHANGED <<log, outbox, telegram, clock, nextSid, nreq, jar, inflight, last, hist,
                 present, written>>

NextStats == \E hours \in StatHours : ApplyStats(hours)

SpecStats == InitStats /\ [][NextStats]_vars

\* ------------------------------------------------------------------ claims
Done(c) == last[c].done
IsGet(x, segs) == x.req.method = "GET" /\ x.req.segs = segs
IsPost(x, segs) == x.req.method = "POST" /\ x.req.segs = segs
IsAdmin(x) == x.req.method = "GET" /\ Len(x.req.segs) = 2 /\ x.req.segs[1] = "_admin"
IsDecoy(x) == x.req.method = "GET" /\ Len(x.req.segs) = 1 /\ InProfileNames(x.req.segs[1])
IsNoDecoy(x) == x.req.method = "GET" /\ Len(x.req.segs) = 1 /\ ~InProfileNames(x.req.segs[1])
AllIdle == \A c \in Clients : inflight[c].pc = "idle"
EventsOfKind(k) == {i \in 1..Len(log) : json_loads_ok(log[i]) /\ log[i].json.kind = k}

\* C1: every request the middleware handles gets exactly one `request` event
\* before the handler and exactly one `response` event after it, also when
\* the handler raises: once no request is in flight, the log holds as many
\* response events as request events, and every completed exchange has
\* logged its response event.
C1_EveryRequestHasResponse ==
    /\ AllIdle => Cardinality(EventsOfKind("response")) = Cardinality(EventsOfKind("request"))
    /\ \A c \in Clients : Done(c) => last[c].logged

\* C2: the log is append-only: in every step the log before the step is a
\* prefix of the log after it.
C2_AppendOnly == [][Len(log') >= Len(log) /\ SubSeq(log', 1, Len(log)) = log]_vars

\* C2 witness: an authenticated export has read a log of at least three lines
C2_Witness ==
    \E c \in Clients : Done(c) /\ IsGet(last[c], <<"_admin", "export">>) /\ last[c].read
                        /\ Len(log) >= 4

\* C3: a GET of an enumerated decoy path appends exactly one profile_view
\* event carrying that profile name, whatever the notifier does.
C3_DecoyAppendsOneProfileView ==
    \A c \in Clients :
        (Done(c) /\ IsDecoy(last[c])) =>
            /\ ~last[c].raised
            /\ Len(last[c].appended) = 1
            /\ json_loads_ok(last[c].appended[1])
            /\ last[c].appended[1].json.kind = "profile_view"
            /\ last[c].appended[1].json.profile = last[c].req.segs[1]

\* C3 witness: a decoy page was served while the notifier call failed
C3_Witness ==
    \E c \in Clients :
        /\ Done(c) /\ IsDecoy(last[c])
        /\ Len(last[c].posts) = 1 /\ ~last[c].posts[1].delivered
        /\ Cardinality(EventsOfKind("profile_view")) = 1

\* C4: a GET of /{name} with name outside the profile set answers 404, appends
\* no event of its own (the middleware's request and response events only)
\* and calls the notifier not at all.
C4_UnknownNameIs404 ==
    \A c \in Clients :
        (Done(c) /\ IsNoDecoy(last[c])) =>
            /\ last[c].res.status = 404
            /\ last[c].appended = <<>>
            /\ last[c].posts = <<>>
            /\ last[c].logged

\* C4 witness: /nobody was requested and answered, and the log holds nothing
\* but its request and response events
C4_Witness ==
    \E c \in Clients :
        /\ Done(c) /\ IsGet(last[c], <<"nobody">>)
        /\ Len(log) = 2 /\ EventsOfKind("request") = {1} /\ EventsOfKind("response") = {2}

\* C5: a request without hp_sid cookie always gets a new sid and a Set-Cookie
\* of that sid on its response; a request that presents the cookie is logged
\* with that sid and gets no Set-Cookie.
C5_CookieAlwaysSet ==
    \A c \in Clients :
        Done(c) =>
            IF last[c].req.hp_sid = NoSid
            THEN last[c].set_cookie = last[c].s /\ last[c].s # NoSid
            ELSE last[c].set_cookie = NoSid /\ last[c].s = last[c].req.hp_sid

\* C6: POST /event always answers {ok: true} and appends exactly one client
\* event, for every body; the event of {action: a, label: l} carries a and l.
C6_EventAlwaysAcknowledged ==
    \A c \in Clients :
        (Done(c) /\ IsPost(last[c], <<"event">>)) =>
            /\ last[c].res.status = 200 /\ last[c].res.body = "ok"
            /\ Len(last[c].appended) = 1
            /\ last[c].appended[1].json.kind = "client"
            /\ (last[c].req.body.type = "object" /\ DOMAIN last[c].req.body.value = {"action", "label"})
                   => /\ last[c].appended[1].json.action = last[c].req.body.value.action
                      /\ last[c].appended[1].json.label = last[c].req.body.value.label

\* C7: an /_admin/* request of a client that has not logged in with the
\* configured username and password is redirected to /login and reads no
\* log; only a client that has logged in so gets log contents.
C7_AdminNeedsLogin ==
    \A c \in Clients :
        Done(c) =>
            /\ (IsAdmin(last[c]) /\ ~hist[c].login) =>
                   /\ last[c].res = Redirect("/login")
                   /\ ~last[c].read
            /\ last[c].read => hist[c].login

\* C7 witness: after a failed login an admin request was redirected
C7_Witness ==
    \E c \in Clients :
        /\ Done(c) /\ IsAdmin(last[c]) /\ hist[c].failed /\ ~hist[c].login
        /\ last[c].res.status = 303

\* C8: GET /logout clears the admin session: a client that has sent GET
\* /logout since its last successful login holds no authenticated session,
\* and its /_admin/* requests are redirected to /login.
C8_LogoutClearsSession ==
    \A c \in Clients :
        hist[c].out =>
            /\ inflight[c].pc = "idle" => jar[c].user # ADMIN_USER
            /\ (Done(c) /\ IsAdmin(last[c])) => last[c].res = Redirect("/login")

\* C9: GET /login yields the login form; POST /login with the configured
\* credentials sets the session flag and redirects to /_admin/logs, with any
\* other credentials it redisplays the form and sets no flag.
C9_LoginSurface ==
    \A c \in Clients :
        Done(c) =>
            /\ IsGet(last[c], <<"login">>) =>
                   last[c].res.status = 200 /\ last[c].res.body = "login.html"
            /\ IsPost(last[c], <<"login">>) =>
                   IF last[c].req.username = ADMIN_USER /\ last[c].req.password = ADMIN_PASS
                   THEN last[c].res = Redirect("/_admin/logs") /\ last[c].user = ADMIN_USER
                   ELSE last[c].res.body = "login.html" /\ last[c].user = last[c].req.user

\* the records of the log that the window `hours` keeps: those that parse
\* and whose ts is no timestamp or is not before StatsNow - hours
InWindow(hours) ==
    {i \in 1..Len(log) :
        /\ "json" \in DOMAIN log[i]
        /\ \/ log[i].json.ts[1] # "iso"
           \/ log[i].json.ts[2] >= clock - hours}

\* C10: admin_stats with window H aggregates a parseable record iff its ts
\* is unparseable or not strictly before now - H: the per-IP counters count
\* exactly the request events in the window, and the IPs with a last_seen
\* are exactly the IPs of the records in the window.
C10_Window ==
    statsOut # <<>> =>
        LET W == InWindow(statsOut.hours)
        IN /\ CounterTotal(statsOut.agg.per_ip)
                  = Cardinality({i \in W : log[i].json.kind = "request"})
           /\ DOMAIN statsOut.agg.last_seen = {log[i].json.ip : i \in W}
           /\ CounterTotal(statsOut.res.stats.top_ips)
                  = Cardinality({i \in W : log[i].json.kind = "request"})

\* C10 witness: records stamped T-200h, T-10h, T-1h and H = 24: two counted
C10_Witness ==
    /\ statsOut # <<>> /\ statsOut.hours = 24
    /\ Len(log) = 3
    /\ \A i \in 1..3 : "json" \in DOMAIN log[i] /\ log[i].json.kind = "request"
    /\ log[1].json.ts = now_iso(StatsNow - 200)
    /\ log[2].json.ts = now_iso(StatsNow - 10)
    /\ log[3].json.ts = now_iso(StatsNow - 1)
    /\ CounterTotal(statsOut.agg.per_ip) = 2

\* ------------------------------------------------- the ranking on its own
\* The aggregation applied to logs made of Fill(k), k lines of k different
\* IPs, followed by at most MaxBlocks blocks; a block is n equal lines of one
\* IP, stamped one hour before StatsNow.
RankIps == {"A", "B", "C"}
RankBlocks == [ip : RankIps, n : {2, 5}, kind : {"request", "profile_view"}]
Fillers == {0, 18, 20}
RankHours == {24}

Fill(k) ==
    [i \in 1..k |-> json_dumps([ts |-> now_iso(StatsNow - 1), kind |-> "response",
                                sid |-> uuid4(1), ip |-> "f" \o ToString(i),
                                route |-> "/", status |-> 200, is_honey |-> FALSE])]

BlockLines(b) ==
    [i \in 1..b.n |-> json_dumps([ts |-> now_iso(StatsNow - 1), kind |-> b.kind,
                                  sid |-> uuid4(1), ip |-> b.ip, route |-> "/Jack"])]

RECURSIVE Concat(_)
Concat(blocks) == IF blocks = <<>> THEN <<>> ELSE BlockLines(Head(blocks)) \o Concat(Tail(blocks))

InitRank ==
    /\ \E k \in Fillers, blocks \in SeqsUpTo(RankBlocks, MaxBlocks) :
           log = Fill(k) \o Concat(blocks)
    /\ outbox = <<>>
    /\ telegram = FALSE
    /\ clock = StatsNow
    /\ nextSid = 1
    /\ nreq = 0
    /\ jar = [c \in Clients |-> [hp_sid |-> NoSid, user |-> NoUser]]
    /\ inflight = [c \in Clients |-> Idle]
    /\ last = [c \in Clients |-> NoExchange]
    /\ hist = [c \in Clients |-> [login |-> FALSE, failed |-> FALSE, out |-> FALSE]]
    /\ statsOut = <<>>
    /\ present = TRUE
    /\ written = <<>>

NextRank == \E hours \in RankHours : ApplyStats(hours)

SpecRank == InitRank /\ [][NextRank]_vars

\* the lines the window keeps that count for an IP: request and response events
Counted(hours) ==
    {i \in InWindow(hours) : log[i].json.kind \in {"request", "response"}}

\* C11: admin_stats returns at most 20 IPs, by descending count of the
\* request/response events in the window, equal counts in the order in which
\* the IPs are first counted in the file; the 20 are the first 20 of that order.
C11_TopIps ==
    statsOut # <<>> =>
        LET top == statsOut.res.stats.top_ips
            C == Counted(statsOut.hours)
            ips == {log[i].json.ip : i \in C}
            keys == {top[i].key : i \in 1..Len(top)}
            CountOf(ip) == Cardinality({i \in C : log[i].json.ip = ip})
            FirstOf(ip) == CHOOSE i \in C : /\ log[i].json.ip = ip
                                            /\ \A j \in C : log[j].json.ip = ip => i <= j
            RanksBefore(a, b) ==
                \/ CountOf(a) > CountOf(b)
                \/ CountOf(a) = CountOf(b) /\ FirstOf(a) < FirstOf(b)
        IN /\ Len(top) <= 20
           /\ Len(top) = (IF Cardinality(ips) < 20 THEN Cardinality(ips) ELSE 20)
           /\ keys \subseteq ips /\ Cardinality(keys) = Len(top)
           /\ \A i \in 1..Len(top) : top[i].n = CountOf(top[i].key)
           /\ \A i \in 1..(Len(top) - 1) : RanksBefore(top[i].key, top[i + 1].key)
           /\ Len(top) > 0 => \A ip \in ips \ keys : RanksBefore(top[Len(top)].key, ip)

\* C11 witness: A (5 events), B (2), C (5), A before C in the file: A, C, B
C11_Witness ==
    /\ statsOut # <<>>
    /\ Len(log) = 12
    /\ \A i \in 1..12 : json_loads_ok(log[i]) /\ log[i].json.kind = "request"
                        /\ log[i].json.ip = (IF i <= 5 THEN "A" ELSE IF i <= 7 THEN "B" ELSE "C")
    /\ statsOut.res.stats.top_ips =
           <<[key |-> "A", n |-> 5], [key |-> "C", n |-> 5], [key |-> "B", n |-> 2]>>

\* ------------------------------------------------------ the export on its own
\* Logs of 0 or 7 request records followed by up to MaxLines lines drawn from
\* three records with different fields and a line that is no JSON.
ExportPrefix == {0, 7}
ExportLines ==
    {json_dumps([ts |-> now_iso(StatsNow), kind |-> "request", sid |-> uuid4(1),
                 ip |-> "10.0.0.1", route |-> "/Jack", method |-> "GET"]),
     json_dumps([ts |-> now_iso(StatsNow), kind |-> "profile_view", sid |-> uuid4(2),
                 ip |-> "10.0.0.1", route |-> "/Jack"]),
     json_dumps([ts |-> now_iso(StatsNow), kind |-> "client", sid |-> uuid4(1),
                 ip |-> "10.0.0.2", action |-> "click", label |-> "Jack"]),
     [raw |-> "{"]}
ExportLimits == {0, 1, 2, 3, DefaultLimit}

Older(k) ==
    [i \in 1..k |-> json_dumps([ts |-> now_iso(StatsNow - 1), kind |-> "request",
                                sid |-> uuid4(3), ip |-> "10.0.0.3", route |-> "/",
                                method |-> "GET"])]

ExportRequest == [AdminRequest EXCEPT !.segs = <<"_admin", "export">>]

InitExport ==
    /\ \E k \in ExportPrefix, recent \in SeqsUpTo(ExportLines, MaxLines) :
           log = Older(k) \o recent
    /\ outbox = <<>>
    /\ telegram = FALSE
    /\ clock = StatsNow
    /\ nextSid = 1
    /\ nreq = 0
    /\ jar = [c \in Clients |-> [hp_sid |-> NoSid, user |-> NoUser]]
    /\ inflight = [c \in Clients |-> Idle]
    /\ last = [c \in Clients |-> NoExchange]
    /\ hist = [c \in Clients |-> [login |-> FALSE, failed |-> FALSE, out |-> FALSE]]
    /\ statsOut = <<>>
    /\ present = TRUE
    /\ written = <<>>

\* export_csv of a logged-in session with `limit`
ApplyExport(limit) ==
    /\ statsOut = <<>>
    /\ statsOut' = [limit |-> limit, res |-> export_csv(ExportRequest, log, present, limit).res]
    /\ UNCHANGED <<log, outbox, telegram, clock, nextSid, nreq, jar, inflight, last, hist,
                 present, written>>

NextExport == \E limit \in ExportLimits : ApplyExport(limit)

SpecExport == InitExport /\ [][NextExport]_vars

\* the lines that parse
Parseable == {i \in 1..Len(log) : json_loads_ok(log[i])}

\* the m-th smallest member of a set of line numbers
Nth(K, m) == CHOOSE i \in K : Cardinality({j \in K : j <= i}) = m

\* C12: export with limit = N returns as rows exactly the last N parseable
\* records of the log (all of them if there are fewer than N), in file order.
C12_ExportLastN ==
    statsOut # <<>> =>
        LET rows == statsOut.res.rows
            K == {i \in Parseable :
                     Cardinality({j \in Parseable : j >= i}) <= statsOut.limit}
        IN /\ Len(rows) = Cardinality(K)
           /\ \A m \in 1..Len(rows) : rows[m] = Row(json_loads(log[Nth(K, m)]))

\* ------------------------------------------------- the log file taken away
\* Someone with access to the host removes or rotates the log file while the
\* server runs; the next log_event creates it again.
RemoveLog ==
    /\ present
    /\ log' = <<>>
    /\ present' = FALSE
    /\ UNCHANGED <<outbox, telegram, clock, nextSid, nreq, jar, inflight, last, hist, statsOut,
                 written>>

NextMissing == Next \/ RemoveLog

SpecMissing == Init /\ [][NextMissing]_vars

\* C13: a reader that finds no log file treats it as an empty log: a logged-in
\* call to /_admin/logs, /_admin/stats or /_admin/export whose handler runs
\* while the file does not exist completes normally with empty results.
C13_MissingLogIsEmpty ==
    \A c \in Clients :
        (Done(c) /\ IsAdmin(last[c]) /\ is_logged_in(last[c].req) /\ ~last[c].found) =>
            /\ ~last[c].raised
            /\ last[c].res.status = 200
            /\ CASE last[c].req.segs[2] = "logs" -> last[c].res.events = <<>>
                 [] last[c].req.segs[2] = "export" -> last[c].res.rows = <<>>
                 [] OTHER -> /\ last[c].res.stats.top_ips = <<>>
                             /\ last[c].res.stats.top_routes = <<>>
                             /\ last[c].res.stats.top_clicks = <<>>
                             /\ last[c].res.stats.ip_details = <<>>

\* ------------------------------------------------ a log with a damaged line
\* The server starts on a log that holds an older record and a line that is no
\* JSON; the notifier is configured, and the browser c1 still holds the
\* session of an earlier login.
DirtyLog ==
    <<json_dumps([ts |-> now_iso(0), kind |-> "request", sid |-> uuid4(0),
                  ip |-> "10.0.0.9", route |-> "/", method |-> "GET"]),
      [raw |-> "{"]>>

InitDirty ==
    /\ log = DirtyLog
    /\ outbox = <<>>
    /\ telegram = TRUE
    /\ clock = 0
    /\ nextSid = 1
    /\ nreq = 0
    /\ jar = [c \in Clients |-> IF c = "c1" THEN [hp_sid |-> uuid4(0), user |-> ADMIN_USER]
                                             ELSE [hp_sid |-> NoSid, user |-> NoUser]]
    /\ inflight = [c \in Clients |-> Idle]
    /\ last = [c \in Clients |-> NoExchange]
    /\ hist = [c \in Clients |-> [login |-> c = "c1", failed |-> FALSE, out |-> FALSE]]
    /\ statsOut = <<>>
    /\ present = TRUE
    /\ written = <<>>

SpecDirty == InitDirty /\ [][Next]_vars

\* the lines of a file that parse
Clean(lines) == SelectSeq(lines, json_loads_ok)

\* a completed logged-in call of the reader at /_admin/<page>
ReadBy(c, page) ==
    /\ Done(c) /\ IsGet(last[c], <<"_admin", page>>) /\ is_logged_in(last[c].req)

C15_OneSidPerRequest ==
    \A c \in Clients :
        (Done(c) /\ last[c].appended # <<>>) =>
            /\ \A i \in 1..Len(last[c].appended) :
                   json_loads(last[c].appended[i]).sid = last[c].s
            /\ (last[c].logged /\ last[c].req.hp_sid = NoSid) =>
                   last[c].set_cookie = last[c].s

\* -------------------------------------------------- the detail rows on their own
\* Logs of 0 or 20 single-event filler IPs followed by up to MaxLines events of
\* the IPs A and B: requests of two sessions an hour, ten hours and 200 hours
\* ago, a request with an unparseable timestamp, and a profile view.
DetailLines ==
    {json_dumps([ts |-> v.ts, kind |-> v.kind, sid |-> uuid4(v.sid), ip |-> i,
                 route |-> "/Jack"]) :
        i \in {"A", "B"},
        v \in {[ts |-> now_iso(StatsNow - 1), kind |-> "request", sid |-> 1],
               [ts |-> now_iso(StatsNow - 10), kind |-> "request", sid |-> 2],
               [ts |-> now_iso(StatsNow - 200), kind |-> "request", sid |-> 3],
               [ts |-> <<"text", "yesterday">>, kind |-> "request", sid |-> 1],
               [ts |-> now_iso(StatsNow - 1), kind |-> "profile_view", sid |-> 2]}}
DetailFillers == {0, 20}
DetailHours == {1, 24}

InitDetail ==
    /\ \E k \in DetailFillers, recent \in SeqsUpTo(DetailLines, MaxLines) :
           log = Fill(k) \o recent
    /\ outbox = <<>>
    /\ telegram = FALSE
    /\ clock = StatsNow
    /\ nextSid = 1
    /\ nreq = 0
    /\ jar = [c \in Clients |-> [hp_sid |-> NoSid, user |-> NoUser]]
    /\ inflight = [c \in Clients |-> Idle]
    /\ last = [c \in Clients |-> NoExchange]
    /\ hist = [c \in Clients |-> [login |-> FALSE, failed |-> FALSE, out |-> FALSE]]
    /\ statsOut = <<>>
    /\ present = TRUE
    /\ written = <<>>

NextDetail == \E hours \in DetailHours : ApplyStats(hours)

SpecDetail == InitDetail /\ [][NextDetail]_vars

\* the in-window events of an IP, of every kind
EventsOf(hours, ip) == {i \in InWindow(hours) : log[i].json.ip = ip}

\* C16: admin_stats emits one detail row per top IP, in the order of the
\* ranking, and none for another IP; the row's sessions is the number of
\* distinct sids among the in-window events of that IP and its last_seen is the
\* latest parseable ts among them (datetime.min if none parses), so that an
\* unparseable ts never raises it.
C16_IpDetails ==
    statsOut # <<>> =>
        LET top == statsOut.res.stats.top_ips
            rows == statsOut.res.stats.ip_details
        IN /\ Len(rows) = Len(top)
           /\ \A i \in 1..Len(rows) :
                  LET E == EventsOf(statsOut.hours, top[i].key)
                      stamps == {log[j].json.ts[2] : j \in {e \in E : log[e].json.ts[1] = "iso"}}
                      latest == IF stamps = {} THEN DatetimeMin
                                ELSE CHOOSE t \in stamps : \A u \in stamps : u <= t
                  IN /\ rows[i].ip = top[i].key
                     /\ rows[i].sessions = Cardinality({log[j].json.sid : j \in E})
                     /\ rows[i].last_seen = StrDatetime(latest)

\* C16 witness: 21 IPs are counted, so one has no row; the first row is of an
\* IP seen in two sessions whose last event has an unparseable ts.
C16_Witness ==
    /\ statsOut # <<>>
    /\ Len(statsOut.res.stats.ip_details) = 20
    /\ Cardinality({log[i].json.ip : i \in Counted(statsOut.hours)}) = 21
    /\ statsOut.res.stats.ip_details[1] =
           [ip |-> "A", sessions |-> 2, last_seen |-> StrDatetime(StatsNow - 1)]
    /\ log[Len(log)].json.ip = "A" /\ log[Len(log)].json.ts[1] = "text"

\* the lines of the log that hold an event like ev of the client that sent x
LinesOf(x, kind) ==
    {i \in 1..Len(log) :
        /\ json_loads_ok(log[i])
        /\ json_loads(log[i]).kind = kind
        /\ json_loads(log[i]).ip = ip_from_req(x.req)}

Latest(S) == CHOOSE i \in S : \A j \in S : j <= i

\* C17: for a GET of a decoy path or a POST /event the log holds the request
\* event of that request, then the profile_view (resp. client) event of the
\* handler, then its response event, whatever other requests append in
\* between, and the handler calls the notifier only after its event is in the
\* log.  A client's requests follow one another, so once its exchange is over
\* the three events are its latest of their kinds.
C17_EventOrder ==
    \A c \in Clients :
        (Done(c) /\ inflight[c].pc = "idle"
            /\ (IsDecoy(last[c]) \/ IsPost(last[c], <<"event">>))) =>
            LET x == last[c]
                Req == {i \in LinesOf(x, "request") :
                           /\ json_loads(log[i]).sid = x.s
                           /\ json_loads(log[i]).route = UrlPath(x.req.segs)}
                Ev == LinesOf(x, IF IsDecoy(x) THEN "profile_view" ELSE "client")
                Res == {i \in LinesOf(x, "response") :
                           /\ json_loads(log[i]).sid = x.s
                           /\ json_loads(log[i]).route = UrlPath(x.req.segs)}
            IN /\ Req # {} /\ Ev # {} /\ Res # {}
               /\ Latest(Req) < Latest(Ev)
               /\ Latest(Ev) < Latest(Res)
               /\ \A i \in 1..Len(x.posts) : x.posts[i].after >= Latest(Ev)

====
